---- MODULE Spec2Model ----
(***************************************************************************)
(* Mark and sweep garbage collection of the repo's blockstore              *)
(* (packages/ipfs/src/core/components/repo/gc.js).                         *)
(*                                                                         *)
(* Each GC run is one call of the async generator gc: it takes the write   *)
(* lock, builds markedSet from three sources merged by parallelMerge,      *)
(* queries the block keys and pipes them through                           *)
(* transform(BLOCK_RM_CONCURRENCY, removeBlock, blockKeys), yielding the   *)
(* non-null results; release() sits in the finally block.                  *)
(*                                                                         *)
(* Steps are the points where the JavaScript event loop can interleave     *)
(* other work: lock acquisition, each item of a source, each key read,     *)
(* each completion of repo.blocks.delete, and each pull of the consumer.   *)
(***************************************************************************)
EXTENDS Integers, Sequences, FiniteSets, TLC

\* ------------------------------------------------------------------ bounds

\* Number of distinct multihashes (blocks) in the universe.
NumBlocks == 3

\* Number of failures the collaborators may produce in one behaviour: a mark
\* source, the key iterator or a repo.blocks.delete throwing, or a key of the
\* blockstore that cannot be encoded.
MaxFaults == 1

\* Limit on the number of parallel block remove operations.  The source sets
\* 256; the model scales it to the key universe so that the cap is reached.
BLOCK_RM_CONCURRENCY == 2

\* The GC runs (calls of gc) of one behaviour, and the mutator's lock identity.
Runs == {"gc1", "gc2"}
\* Runs are named in the order in which they are started.
RunOrder(r) == IF r = "gc1" THEN 1 ELSE 2
Mutator == "mutator"

\* ------------------------------------------------------------- identifiers

MH == 1 .. NumBlocks

\* A CID wraps a multihash together with a version (0 or 1).
CIDS == [v : {0, 1}, mh : MH]
NoCid == [v |-> -1, mh |-> 0]

CidV0(m) == [v |-> 0, mh |-> m]
CidV1(m) == [v |-> 1, mh |-> m]

\* multibase.encode('base32', cid.multihash).toString(): the encoded form
\* depends on the multihash alone, the CID version is dropped.
Encode(cid) == <<"b", cid.mh>>
\* Variant of Encode: the CID is encoded as a whole, version included.
EncodeWholeCid(cid) == <<"b", cid.v, cid.mh>>

\* The key of the block a CID names in the blockstore.
KeyOf(cid) == cid.mh

\* Links between blocks, walked by refs: block 1 links to block 2.
Links(m) == IF m = 1 THEN {2} ELSE {}

RECURSIVE ReachFrom(_, _)
ReachFrom(frontier, seen) ==
    IF frontier \subseteq seen THEN seen
    ELSE ReachFrom(UNION {Links(m) : m \in frontier}, seen \cup frontier)

\* refs(rootCid, { recursive: true }): every block reachable below the root.
Refs(m) == ReachFrom(Links(m), {})

NoRoot == 0

\* ------------------------------------------------------------ result entries

NoErr == [text |-> "", cid |-> NoCid]

\* new Error(`Could not delete block with CID ${cid}: ${err.message}`)
DeleteError(cid) == [text |-> "Could not delete block with CID", cid |-> cid]

\* new Error(`Could delete block with CID ${cid}` + `: ${err.message}`)
OuterError(cid) == [text |-> "Could delete block with CID", cid |-> cid]

\* What removeBlock resolves to: null, { cid }, { cid, err } or { err }.
Null == [isNull |-> TRUE, cid |-> NoCid, err |-> NoErr]
Res(cid, err) == [isNull |-> FALSE, cid |-> cid, err |-> err]

\* ------------------------------------------------------------------- state

VARIABLES
    blocks,     \* repo.blocks: the multihashes stored in the blockstore
    pins,       \* what pin.ls() lists: a set of CIDs
    internals,  \* what pinManager.getInternalBlocks() returns: a set of CIDs
    mfsRoot,    \* repo.root under MFS_ROOT_KEY: a multihash, or NoRoot
    malformed,  \* keys whose CID has no multihash that multibase can encode
    holders,    \* gcLock: who holds the write lock
    waiters,    \* gcLock: the queue of pending writeLock() requests
    mutator,    \* the mutator's one operation: idle, held, done
    faults,     \* failures the collaborators have produced so far
    run,        \* per GC run: the generator gc and createMarkedSet
    sweep       \* per GC run: deleteUnmarkedBlocks and its transform

vars == <<blocks, pins, internals, mfsRoot, malformed, holders, waiters, mutator, faults, run, sweep>>

Sources == {"pinsSource", "pinInternalsSource", "mfsSource"}

\* A GC run before its first next().
InitRun == [
    pc                 |-> "idle",     \* (uncalled,) idle, lockwait, mark, pull,
                                       \* yielded, done
    returnReq          |-> FALSE,      \* a return() queued while the generator runs
    pinsSource         |-> [st |-> "idle", left |-> {}],
    pinInternalsSource |-> [st |-> "idle", left |-> {}],
    mfsSource          |-> [st |-> "idle", left |-> {}],
    markedSet          |-> {},         \* output of createMarkedSet
    out                |-> {},         \* the entries yielded to the consumer
    outCount           |-> 0,          \* the number of entries yielded
    outcome            |-> "none",     \* none, ok, error, closed
    markFailed         |-> FALSE,      \* createMarkedSet threw
    releases           |-> 0,          \* calls of release()
    live               |-> {},         \* blocks the three sources name at mark time
    endMutator         |-> "idle",     \* the mutator's position when the run ended
    succession         |-> FALSE,      \* took the lock after a run drained to
                                       \* completion, nothing mutated in between
    clean              |-> FALSE       \* ... and that run reported no error entry
]

\* deleteUnmarkedBlocks before it is called.
InitSweep == [
    active             |-> FALSE,      \* transform has been asked for a value
    blockKeys          |-> {},         \* keys the query has still to produce
    enumerated         |-> {},         \* keys removeBlock was called with
    ended              |-> FALSE,      \* transform: the key iterator is exhausted
    lastError          |-> FALSE,      \* transform: the key iterator threw
    inflight           |-> {},         \* keys whose repo.blocks.delete is pending
    resultQueue        |-> <<>>,       \* transform: results not yet pulled
    blocksCount        |-> 0,
    removedBlocksCount |-> 0,
    started            |-> {},         \* keys repo.blocks.delete was called for
    succeeded          |-> {}          \* keys whose repo.blocks.delete succeeded
]

\* The repo, the lock and the collaborators before any call of gc.
InitRepo ==
    /\ blocks = MH
    /\ pins = {}
    /\ \/ mfsRoot = NoRoot /\ internals = {}
       \/ mfsRoot = 1 /\ internals = {CidV0(2)}
    /\ holders = {}
    /\ waiters = <<>>
    /\ mutator = "idle"
    /\ malformed \in {m \in SUBSET MH : Cardinality(m) <= MaxFaults}
    /\ faults = Cardinality(malformed)
    /\ sweep = [r \in Runs |-> InitSweep]

\* gc is called once.
Init ==
    /\ InitRepo
    /\ run = [r \in Runs |->
                IF r = "gc1" THEN InitRun ELSE [InitRun EXCEPT !.pc = "uncalled"]]

\* gc is called twice, the calls overlapping in any way.
InitTwoRuns ==
    /\ InitRepo
    /\ run = [r \in Runs |-> InitRun]

\* --------------------------------------------------------------- the lock

\* release(): the write lock is given up by every run whose release() was
\* called in this step.
Released(h, before, after) ==
    h \ {r \in Runs : after[r].releases > before[r].releases}

\* ------------------------------------------------------------ gc, lines 16-35

\* Variant of Finally: release() is also called at the end of the try block,
\* so that a drained run releases twice.
FinallyReleasesTwice(rr, how, muts) ==
    [rr EXCEPT !.pc = "done", !.outcome = how,
               !.releases = IF how = "ok" THEN @ + 2 ELSE @ + 1,
               !.returnReq = FALSE, !.endMutator = muts]

\* Variant of Finally: release() follows the sweep without try/finally, so
\* that a failing or closed run keeps the lock.
FinallyOnSuccessOnly(rr, how, muts) ==
    [rr EXCEPT !.pc = "done", !.outcome = how,
               !.releases = IF how = "ok" THEN @ + 1 ELSE @,
               !.returnReq = FALSE, !.endMutator = muts]

\* The finally block of gc (lines 32-34) followed by the settling of the
\* generator: release() is called, then the caller sees how the run ended.
\* A return() still queued finds the generator completed and does nothing.
Finally(rr, how, muts) ==
    [rr EXCEPT !.pc = "done", !.outcome = how, !.releases = @ + 1,
               !.returnReq = FALSE, !.endMutator = muts]

\* `yield res` inside deleteUnmarkedBlocks, forwarded by `yield *` (line 29):
\* the generator suspends until the consumer pulls again; a return() queued
\* while it was running is served at this point and runs the finally block.
Yield(rr, res, muts) ==
    IF rr.returnReq
    THEN Finally([rr EXCEPT !.out = @ \cup {res}, !.outCount = @ + 1],
                 "closed", muts)
    ELSE [rr EXCEPT !.pc = "yielded", !.out = @ \cup {res}, !.outCount = @ + 1]

\* Variant of Loop: no `if (res)`, the null of a retained block is yielded
\* like any other result.
LoopKeepsNulls(rr, res, muts) == Yield(rr, res, muts)

\* The body of the for-await loop of deleteUnmarkedBlocks (lines 104-107):
\* nulls (blocks that were retained) are filtered, the rest is yielded.
Loop(rr, res, muts) ==
    IF res.isNull THEN rr ELSE Yield(rr, res, muts)

\* Blocks named by the three mark sources in the current repo state.
LiveBlocks ==
    {KeyOf(c) : c \in pins \cup internals}
        \cup (IF mfsRoot = NoRoot THEN {} ELSE {mfsRoot} \cup Refs(mfsRoot))

\* The run r follows a run that was drained to completion, and nothing was
\* mutated in between.
FollowsDrainedRun(r) ==
    \E a \in Runs \ {r} :
        /\ run[a].outcome = "ok"
        /\ run[a].endMutator = mutator

\* ... and that run reported no error entry.
FollowsCleanRun(r) ==
    \E a \in Runs \ {r} :
        /\ run[a].outcome = "ok"
        /\ run[a].endMutator = mutator
        /\ \A e \in run[a].out : e.err = NoErr

\* gc is called and pulled for the first time: it runs up to
\* `await gcLock.writeLock()` (line 20).
Start(r) ==
    /\ run[r].pc = "idle"
    /\ \A q \in Runs : RunOrder(q) < RunOrder(r) => run[q].pc # "idle"
    /\ run' = [run EXCEPT ![r].pc = "lockwait"]
    /\ waiters' = Append(waiters, r)
    /\ UNCHANGED <<blocks, pins, internals, mfsRoot, malformed, holders, mutator, faults, sweep>>

\* The write lock is free: no writer holds it.
LockFree == holders = {}

\* Variant of Acquire: the promise of writeLock() is not awaited, the run
\* goes on whether or not the lock is free.
AcquireNotAwaited(r) ==
    /\ run[r].pc = "lockwait"
    /\ waiters # <<>>
    /\ Head(waiters) = r
    /\ holders' = holders \cup {r}
    /\ waiters' = Tail(waiters)
    /\ run' = [run EXCEPT ![r] =
            [@ EXCEPT !.pc = "mark",
                      !.pinsSource = [st |-> "run", left |-> pins],
                      !.pinInternalsSource = [st |-> "run", left |-> internals],
                      !.mfsSource = [st |-> "get", left |-> {}],
                      !.live = LiveBlocks \cap blocks,
                      !.succession = FollowsDrainedRun(r),
                      !.clean = FollowsCleanRun(r)]]
    /\ UNCHANGED <<blocks, pins, internals, mfsRoot, malformed, mutator, faults, sweep>>

\* The lock is granted (line 20) and createMarkedSet sets up its three
\* sources (lines 40-65).
Acquire(r) ==
    /\ run[r].pc = "lockwait"
    /\ LockFree
    /\ waiters # <<>>
    /\ Head(waiters) = r
    /\ holders' = holders \cup {r}
    /\ waiters' = Tail(waiters)
    /\ run' = [run EXCEPT ![r] =
            [@ EXCEPT !.pc = "mark",
                      !.pinsSource = [st |-> "run", left |-> pins],
                      !.pinInternalsSource = [st |-> "run", left |-> internals],
                      !.mfsSource = [st |-> "get", left |-> {}],
                      !.live = LiveBlocks \cap blocks,
                      !.succession = FollowsDrainedRun(r),
                      !.clean = FollowsCleanRun(r)]]
    /\ UNCHANGED <<blocks, pins, internals, mfsRoot, malformed, mutator, faults, sweep>>

\* ------------------------------------------- createMarkedSet, lines 39-72

\* A source nobody pulls from any more.
Dropped == [st |-> "dropped", left |-> {}]

\* Variant of Mark: the whole CID is encoded, so that two CIDs of one
\* multihash are two members of the set.
MarkWholeCid(output, cid) == output \cup {EncodeWholeCid(cid)}

\* output.add(multibase.encode('base32', cid.multihash).toString()), line 69
Mark(output, cid) == output \cup {Encode(cid)}

\* Variant of MfsGet: the catch of lines 51-57 rethrows every error, so that
\* a missing MFS root makes createMarkedSet reject.
MfsGetNotFoundThrows(r) ==
    /\ run[r].pc = "mark"
    /\ run[r].mfsSource.st = "get"
    /\ run' = [run EXCEPT ![r] =
            IF mfsRoot = NoRoot
            THEN Finally([@ EXCEPT !.markFailed = TRUE,
                                   !.pinsSource = Dropped,
                                   !.pinInternalsSource = Dropped,
                                   !.mfsSource = Dropped], "error", mutator)
            ELSE [@ EXCEPT !.mfsSource =
                               [st |-> "run",
                                left |-> {CidV0(m) : m \in Refs(mfsRoot)}],
                           !.markedSet = Mark(@, CidV0(mfsRoot))]]
    /\ holders' = Released(holders, run, run')
    /\ UNCHANGED <<blocks, pins, internals, mfsRoot, malformed, waiters, mutator, faults, sweep>>

\* mfsSource up to its first yield (lines 48-60): NOT_FOUND ends the source
\* without a value; otherwise the root is yielded and refs is walked.
MfsGet(r) ==
    /\ run[r].pc = "mark"
    /\ run[r].mfsSource.st = "get"
    /\ run' = [run EXCEPT ![r] =
            IF mfsRoot = NoRoot
            THEN [@ EXCEPT !.mfsSource = [st |-> "done", left |-> {}]]
            ELSE [@ EXCEPT !.mfsSource =
                               [st |-> "run",
                                left |-> {CidV0(m) : m \in Refs(mfsRoot)}],
                           !.markedSet = Mark(@, CidV0(mfsRoot))]]
    /\ UNCHANGED <<blocks, pins, internals, mfsRoot, malformed, holders, waiters, mutator, faults, sweep>>

\* parallelMerge hands over the next value of one source (line 68).
SourceItem(r, s) ==
    /\ run[r].pc = "mark"
    /\ run[r][s].st = "run"
    /\ \E c \in run[r][s].left :
        run' = [run EXCEPT ![r] =
            [@ EXCEPT ![s] = [st |-> "run", left |-> run[r][s].left \ {c}],
                      !.markedSet = Mark(@, c)]]
    /\ UNCHANGED <<blocks, pins, internals, mfsRoot, malformed, holders, waiters, mutator, faults, sweep>>

\* One source is exhausted.
SourceEnd(r, s) ==
    /\ run[r].pc = "mark"
    /\ run[r][s].st = "run"
    /\ run[r][s].left = {}
    /\ run' = [run EXCEPT ![r][s] = [st |-> "done", left |-> {}]]
    /\ UNCHANGED <<blocks, pins, internals, mfsRoot, malformed, holders, waiters, mutator, faults, sweep>>

\* Variant of SourceFail: the source swallows its error and ends, so that
\* createMarkedSet goes on with what it has.
SourceFailSwallowed(r, s) ==
    /\ run[r].pc = "mark"
    /\ run[r][s].st \in {"get", "run"}
    /\ faults < MaxFaults
    /\ faults' = faults + 1
    /\ run' = [run EXCEPT ![r] =
            [@ EXCEPT !.markFailed = TRUE, ![s] = [st |-> "done", left |-> {}]]]
    /\ UNCHANGED <<blocks, pins, internals, mfsRoot, malformed, holders, waiters, mutator, sweep>>

\* One source throws (pin.ls, getInternalBlocks, repo.root.get with a code
\* other than ERR_NOT_FOUND, or refs): createMarkedSet rejects, gc leaves the
\* try block through finally and the other sources are left behind.
SourceFail(r, s) ==
    /\ run[r].pc = "mark"
    /\ run[r][s].st \in {"get", "run"}
    /\ faults < MaxFaults
    /\ faults' = faults + 1
    /\ run' = [run EXCEPT ![r] =
            Finally([@ EXCEPT !.markFailed = TRUE,
                              !.pinsSource = Dropped,
                              !.pinInternalsSource = Dropped,
                              !.mfsSource = Dropped], "error", mutator)]
    /\ holders' = Released(holders, run, run')
    /\ UNCHANGED <<blocks, pins, internals, mfsRoot, malformed, waiters, mutator, sweep>>

\* All three sources are done: createMarkedSet returns, the keys are queried
\* (line 26) and deleteUnmarkedBlocks asks transform for its first value.
SourcesJoined(rr) == \A s \in Sources : rr[s].st = "done"

\* Variant of StartSweep: the merge ends with the first source that is done
\* (a race instead of a join).
StartSweepFirstToFinish(r) ==
    /\ run[r].pc = "mark"
    /\ \E s \in Sources : run[r][s].st = "done"
    /\ run' = [run EXCEPT ![r].pc = "pull"]
    /\ sweep' = [sweep EXCEPT ![r] =
            [InitSweep EXCEPT !.active = TRUE, !.blockKeys = blocks]]
    /\ UNCHANGED <<blocks, pins, internals, mfsRoot, malformed, holders, waiters, mutator, faults>>

\* Variant of StartSweep: release() is called as soon as the marked set is
\* built, before the sweep.
StartSweepReleasing(r) ==
    /\ run[r].pc = "mark"
    /\ SourcesJoined(run[r])
    /\ run' = [run EXCEPT ![r].pc = "pull", ![r].releases = @ + 1]
    /\ holders' = Released(holders, run, run')
    /\ sweep' = [sweep EXCEPT ![r] =
            [InitSweep EXCEPT !.active = TRUE, !.blockKeys = blocks]]
    /\ UNCHANGED <<blocks, pins, internals, mfsRoot, malformed, waiters, mutator, faults>>

StartSweep(r) ==
    /\ run[r].pc = "mark"
    /\ SourcesJoined(run[r])
    /\ run' = [run EXCEPT ![r].pc = "pull"]
    /\ sweep' = [sweep EXCEPT ![r] =
            [InitSweep EXCEPT !.active = TRUE, !.blockKeys = blocks]]
    /\ UNCHANGED <<blocks, pins, internals, mfsRoot, malformed, holders, waiters, mutator, faults>>

\* -------------------------------------- deleteUnmarkedBlocks, lines 75-111

\* markedSet.has(b32), lines 85-86
IsMarked(markedSet, cid) == Encode(cid) \in markedSet

\* Variant of OuterResult: the outer catch logs the error and returns
\* nothing, so that the key leaves no entry.
OuterResultDropped(cid) == Null

\* What removeBlock returns from its outer catch (lines 97-101).
OuterResult(cid) == Res(NoCid, OuterError(cid))

\* Variant of DeleteResult: a successful delete resolves to null, and is
\* filtered like a retained block.
DeleteResultSilent(cid, deleted) ==
    IF deleted THEN Null ELSE Res(cid, DeleteError(cid))

\* Variant of DeleteResult: no inner try/catch, a failing delete lands in the
\* outer catch.
DeleteResultOuterCatch(cid, deleted) ==
    IF deleted THEN Res(cid, NoErr) ELSE OuterResult(cid)

\* Variant of DeleteResult: the inner catch is empty, a failing delete is
\* reported like a successful one.
DeleteResultSwallowsError(cid, deleted) == Res(cid, NoErr)

\* What removeBlock returns once repo.blocks.delete has settled (lines 87-96).
DeleteResult(cid, deleted) ==
    IF deleted THEN Res(cid, NoErr) ELSE Res(cid, DeleteError(cid))

\* Variant of Admit: no limit on the operations in flight.
AdmitAlways(sw) == TRUE

\* transform admits another key only while the operations in flight and the
\* results not yet pulled are fewer than its concurrency (line 104).
Admit(sw) ==
    Cardinality(sw.inflight) + Len(sw.resultQueue) < BLOCK_RM_CONCURRENCY

\* The for-await loop is parked on transform's next() with nothing queued.
ReaderWaiting(r) == run[r].pc = "pull" /\ sweep[r].resultQueue = <<>>

\* transform has a result: it goes straight to the waiting loop, or into the
\* result queue when the generator is suspended on a yield or has gone.
Emit(r, sw, res) ==
    /\ IF ReaderWaiting(r)
       THEN /\ run' = [run EXCEPT ![r] = Loop(@, res, mutator)]
            /\ sweep' = [sweep EXCEPT ![r] = sw]
       ELSE /\ run' = run
            /\ sweep' = [sweep EXCEPT ![r] =
                    [sw EXCEPT !.resultQueue = Append(@, res)]]
    /\ holders' = Released(holders, run, run')

\* transform reads the next key and calls removeBlock on it, which runs up
\* to its first await: blocksCount++, the encoding (which throws into the
\* outer catch for a malformed key), the marked test and the call of
\* repo.blocks.delete.
ReadKey(r) ==
    /\ sweep[r].active
    /\ ~sweep[r].ended
    /\ Admit(sweep[r])
    /\ \E k \in sweep[r].blockKeys :
        LET cid == CidV1(k)
            sw == [sweep[r] EXCEPT !.blockKeys = @ \ {k},
                                   !.enumerated = @ \cup {k},
                                   !.blocksCount = @ + 1]
        IN  /\ blocks' = blocks
            /\ IF k \in malformed THEN Emit(r, sw, OuterResult(cid))
               ELSE IF IsMarked(run[r].markedSet, cid) THEN Emit(r, sw, Null)
               ELSE /\ sweep' = [sweep EXCEPT ![r] =
                            [sw EXCEPT !.inflight = @ \cup {k},
                                       !.started = @ \cup {k}]]
                    /\ UNCHANGED <<run, holders>>
    /\ UNCHANGED <<pins, internals, mfsRoot, malformed, waiters, mutator, faults>>

\* The key iterator is exhausted.
ReadEnd(r) ==
    /\ sweep[r].active
    /\ ~sweep[r].ended
    /\ Admit(sweep[r])
    /\ sweep[r].blockKeys = {}
    /\ sweep' = [sweep EXCEPT ![r].ended = TRUE]
    /\ UNCHANGED <<blocks, pins, internals, mfsRoot, malformed, holders, waiters, mutator, faults, run>>

\* The key iterator throws: transform stops reading and will reject.
ReadFail(r) ==
    /\ sweep[r].active
    /\ ~sweep[r].ended
    /\ Admit(sweep[r])
    /\ faults < MaxFaults
    /\ faults' = faults + 1
    /\ sweep' = [sweep EXCEPT ![r].ended = TRUE, ![r].lastError = TRUE]
    /\ UNCHANGED <<blocks, pins, internals, mfsRoot, malformed, holders, waiters, mutator, run>>

\* Variant of DeleteDone: removedBlocksCount++ follows the inner try/catch,
\* so that a failed delete is counted as removed too.
DeleteDoneCountsFailures(r) ==
    /\ \E k \in sweep[r].inflight, deleted \in BOOLEAN :
        LET sw == [sweep[r] EXCEPT
                      !.inflight = @ \ {k},
                      !.removedBlocksCount = @ + 1,
                      !.succeeded = IF deleted THEN @ \cup {k} ELSE @]
        IN  /\ deleted \/ faults < MaxFaults
            /\ faults' = IF deleted THEN faults ELSE faults + 1
            /\ blocks' = IF deleted THEN blocks \ {k} ELSE blocks
            /\ Emit(r, sw, DeleteResult(CidV1(k), deleted))
    /\ UNCHANGED <<pins, internals, mfsRoot, malformed, waiters, mutator>>

\* repo.blocks.delete(cid) settles (lines 90-94): the block is gone and
\* removedBlocksCount++, or the delete threw and the block stays.
DeleteDone(r) ==
    /\ \E k \in sweep[r].inflight, deleted \in BOOLEAN :
        LET sw == [sweep[r] EXCEPT
                      !.inflight = @ \ {k},
                      !.removedBlocksCount = IF deleted THEN @ + 1 ELSE @,
                      !.succeeded = IF deleted THEN @ \cup {k} ELSE @]
        IN  /\ deleted \/ faults < MaxFaults
            /\ faults' = IF deleted THEN faults ELSE faults + 1
            /\ blocks' = IF deleted THEN blocks \ {k} ELSE blocks
            /\ Emit(r, sw, DeleteResult(CidV1(k), deleted))
    /\ UNCHANGED <<pins, internals, mfsRoot, malformed, waiters, mutator>>

\* The loop takes a queued result from transform.
Dequeue(r) ==
    /\ run[r].pc = "pull"
    /\ sweep[r].resultQueue # <<>>
    /\ sweep' = [sweep EXCEPT ![r].resultQueue = Tail(@)]
    /\ run' = [run EXCEPT ![r] =
            Loop(@, Head(sweep[r].resultQueue), mutator)]
    /\ holders' = Released(holders, run, run')
    /\ UNCHANGED <<blocks, pins, internals, mfsRoot, malformed, waiters, mutator, faults>>

\* Variant of SweepDone: transform settles only when the keys were exhausted
\* normally, the rejection after an error of the key iterator is lost.
SweepDoneLosesError(sw) ==
    sw.active /\ sw.ended /\ ~sw.lastError /\ sw.inflight = {} /\ sw.resultQueue = <<>>

\* transform is done: keys exhausted (or the iterator threw), nothing in
\* flight, nothing queued.
SweepDone(sw) ==
    sw.active /\ sw.ended /\ sw.inflight = {} /\ sw.resultQueue = <<>>

\* Variant of Finish: the error of the key iterator is dropped, the loop
\* ends as if the keys were exhausted.
FinishSwallowsIteratorError(r) ==
    /\ run[r].pc = "pull"
    /\ SweepDone(sweep[r])
    /\ run' = [run EXCEPT ![r] = Finally(@, "ok", mutator)]
    /\ holders' = Released(holders, run, run')
    /\ UNCHANGED <<blocks, pins, internals, mfsRoot, malformed, waiters, mutator, faults, sweep>>

\* The loop ends (or rethrows the iterator's error), deleteUnmarkedBlocks
\* returns and gc leaves through finally (lines 31-34).
Finish(r) ==
    /\ run[r].pc = "pull"
    /\ SweepDone(sweep[r])
    /\ run' = [run EXCEPT ![r] =
            Finally(@, IF sweep[r].lastError THEN "error" ELSE "ok", mutator)]
    /\ holders' = Released(holders, run, run')
    /\ UNCHANGED <<blocks, pins, internals, mfsRoot, malformed, waiters, mutator, faults, sweep>>

\* ------------------------------------------------------------ the consumer

\* The consumer pulls the next entry: the generator resumes after its yield.
ConsumerNext(r) ==
    /\ run[r].pc = "yielded"
    /\ run' = [run EXCEPT ![r].pc = "pull"]
    /\ UNCHANGED <<blocks, pins, internals, mfsRoot, malformed, holders, waiters, mutator, faults, sweep>>

\* The consumer closes the stream early (return() on the suspended
\* generator): the loop is left, finally runs.  transform has no return()
\* and keeps working on what it has admitted.
ConsumerReturn(r) ==
    /\ run[r].pc = "yielded"
    /\ run' = [run EXCEPT ![r] = Finally(@, "closed", mutator)]
    /\ holders' = Released(holders, run, run')
    /\ UNCHANGED <<blocks, pins, internals, mfsRoot, malformed, waiters, mutator, faults, sweep>>

\* The run is cancelled while the generator is running: the wrapper's
\* return() is queued and served at the next yield.
Cancel(r) ==
    /\ run[r].pc \in {"lockwait", "mark", "pull"}
    /\ ~run[r].returnReq
    /\ run' = [run EXCEPT ![r].returnReq = TRUE]
    /\ UNCHANGED <<blocks, pins, internals, mfsRoot, malformed, holders, waiters, mutator, faults, sweep>>

\* ------------------------------------------------------------- the mutator

\* A store-mutating operation takes the same write lock.
MutLock ==
    /\ mutator = "idle"
    /\ holders = {}
    /\ waiters = <<>>
    /\ holders' = {Mutator}
    /\ mutator' = "held"
    /\ UNCHANGED <<blocks, pins, internals, mfsRoot, malformed, waiters, faults, run, sweep>>

\* Under the lock it pins a stored block or stores a block, then releases
\* the lock.
MutApply ==
    /\ mutator = "held"
    /\ \/ \E c \in CIDS : /\ KeyOf(c) \in blocks
                          /\ c \notin pins
                          /\ pins' = pins \cup {c}
                          /\ blocks' = blocks
       \/ \E k \in MH \ blocks : blocks' = blocks \cup {k} /\ pins' = pins
    /\ holders' = holders \ {Mutator}
    /\ mutator' = "done"
    /\ UNCHANGED <<internals, mfsRoot, malformed, waiters, faults, run, sweep>>

\* ------------------------------------------------------- the specification

Next ==
    \/ \E r \in Runs :
        \/ Start(r)
        \/ Acquire(r)
        \/ MfsGet(r)
        \/ \E s \in Sources : SourceItem(r, s) \/ SourceEnd(r, s) \/ SourceFail(r, s)
        \/ StartSweep(r)
        \/ ReadKey(r)
        \/ ReadEnd(r)
        \/ ReadFail(r)
        \/ DeleteDone(r)
        \/ Dequeue(r)
        \/ Finish(r)
        \/ ConsumerNext(r)
        \/ ConsumerReturn(r)
        \/ Cancel(r)
    \/ MutLock
    \/ MutApply

Spec == Init /\ [][Next]_vars

SpecTwoRuns == InitTwoRuns /\ [][Next]_vars

\* The steps of a consumer that keeps pulling entries until the stream ends:
\* it never closes the stream early and the run is not cancelled.
NextPulling ==
    \/ \E r \in Runs :
        \/ Start(r)
        \/ Acquire(r)
        \/ MfsGet(r)
        \/ \E s \in Sources : SourceItem(r, s) \/ SourceEnd(r, s) \/ SourceFail(r, s)
        \/ StartSweep(r)
        \/ ReadKey(r)
        \/ ReadEnd(r)
        \/ ReadFail(r)
        \/ DeleteDone(r)
        \/ Dequeue(r)
        \/ Finish(r)
        \/ ConsumerNext(r)
    \/ MutLock
    \/ MutApply

\* What the event loop and the collaborators guarantee: a pending writeLock()
\* is granted once the lock is free and a holder of the lock gives it up, the
\* sources and the key iterator answer, every repo.blocks.delete settles,
\* every ready continuation of the generator is run, and the consumer pulls
\* again after each entry.  Failures may happen but need not.
Fairness ==
    /\ WF_vars(MutApply)
    /\ \A r \in Runs :
        /\ WF_vars(Start(r))
        /\ WF_vars(Acquire(r))
        /\ WF_vars(MfsGet(r))
        /\ \A s \in Sources : WF_vars(SourceItem(r, s) \/ SourceEnd(r, s))
        /\ WF_vars(StartSweep(r))
        /\ WF_vars(ReadKey(r) \/ ReadEnd(r))
        /\ WF_vars(DeleteDone(r))
        /\ WF_vars(Dequeue(r))
        /\ WF_vars(Finish(r))
        /\ WF_vars(ConsumerNext(r))

SpecPulling == InitTwoRuns /\ [][NextPulling]_vars /\ Fairness

\* ------------------------------------------------------------ properties

\* The generator of run r is between taking the lock and its finally block.
Active(r) == run[r].pc \in {"mark", "pull", "yielded"}

\* The step that ends run r.
Ends(r) == run[r].pc # "done" /\ run'[r].pc = "done"

\* The entry of a successful deletion of key k, and of a failed one.
Removed(k) == Res(CidV1(k), NoErr)
Failed(k) == Res(CidV1(k), DeleteError(CidV1(k)))

\* C1: liveness preservation.  Every block that the three mark sources name
\* at mark time is still in the blockstore when the run ends (a run whose
\* mark phase completed), whatever other GC runs and the mutator do; and
\* repo.blocks.delete is never called on a key whose encoded form is in the
\* marked set.
C1_LivenessPreserved ==
    /\ [][\A r \in Runs :
            (Ends(r) /\ ~run'[r].markFailed) => run[r].live \subseteq blocks']_vars
    /\ [](\A r \in Runs : \A k \in sweep[r].started :
            ~IsMarked(run[r].markedSet, CidV1(k)))

\* C2: guaranteed lock release.  A run that took the lock calls release()
\* exactly once on every exit path: not before it ends, once when it has
\* ended, never twice; and it holds the lock exactly until then.
C2_ReleasedExactlyOnce ==
    \A r \in Runs :
        /\ run[r].releases = (IF run[r].pc = "done" THEN 1 ELSE 0)
        /\ (r \in holders) = Active(r)

C2_Witness ==
    /\ \E r \in Runs : run[r].outcome = "closed" /\ sweep[r].inflight # {}
    /\ holders = {}

\* C3: a failure of the mark phase is fatal and deletion-free.  When a mark
\* source fails the run ends with the error, it never calls
\* repo.blocks.delete, it yields nothing and the blockstore is unchanged.
C3_MarkFailureDeletesNothing ==
    \A r \in Runs :
        run[r].markFailed =>
            /\ run[r].pc = "done"
            /\ run[r].outcome = "error"
            /\ ~sweep[r].active
            /\ sweep[r].started = {}
            /\ run[r].out = {}
            /\ blocks = MH

C3_Witness ==
    \E r \in Runs :
        run[r].markFailed /\ run[r].markedSet # {} /\ run[r].pc = "done"

\* C4: exclusivity.  At most one of the GC runs and the mutator holds the
\* lock; a run reads its mark sources and sweeps only while it alone holds
\* it; a run that waits for the lock has read nothing and deleted nothing;
\* and whenever a run is at work every other run that got past the lock has
\* already called release().
C4_Exclusive ==
    /\ Cardinality(holders) <= 1
    /\ mutator = "held" => holders = {Mutator}
    /\ \A r \in Runs :
        /\ Active(r) => holders = {r}
        /\ run[r].pc \in {"idle", "lockwait"} =>
            /\ run[r].markedSet = {}
            /\ \A s \in Sources : run[r][s].st = "idle"
            /\ sweep[r] = InitSweep
        /\ Active(r) =>
            \A q \in Runs \ {r} :
                run[q].pc \in {"idle", "lockwait"} \/ run[q].releases = 1

C4_Witness ==
    \E r \in Runs, q \in Runs :
        /\ run[r].pc = "pull"
        /\ sweep[r].inflight # {}
        /\ run[q].pc = "lockwait"

\* C5: dead-block removal.  When a run that was drained to completion ends,
\* every key whose repo.blocks.delete succeeded is absent from the
\* blockstore.
C5_DeadBlocksRemoved ==
    [][\A r \in Runs :
        (Ends(r) /\ run'[r].outcome = "ok") =>
            /\ sweep'[r].succeeded \cap blocks' = {}
            /\ \A e \in run'[r].out : e.err = NoErr => KeyOf(e.cid) \notin blocks'
      ]_vars

C5_Witness ==
    \E r \in Runs :
        /\ run[r].outcome = "ok"
        /\ Cardinality(sweep[r].succeeded) >= 2
        /\ run[r].markedSet # {}

\* C6 as stated: a successful deletion is silent, only a failed deletion is
\* reported as an entry.
C6_SuccessIsSilent ==
    \A r \in Runs : \A e \in run[r].out : e.err # NoErr

\* C6 amended: a successful deletion is reported by one entry that carries
\* the CID and no error, a failed deletion by one entry that carries an
\* error.  Errorless entries are exactly those of successful deletions, and a
\* drained run has yielded one entry for each deletion.
C6_SuccessIsReported ==
    \A r \in Runs :
        /\ \A e \in run[r].out : e.err = NoErr =>
                KeyOf(e.cid) \in sweep[r].succeeded /\ e = Removed(KeyOf(e.cid))
        /\ run[r].outcome = "ok" =>
            /\ \A k \in sweep[r].succeeded : Removed(k) \in run[r].out
            /\ \A k \in sweep[r].started \ sweep[r].succeeded :
                    Failed(k) \in run[r].out /\ Removed(k) \notin run[r].out
        /\ run[r].outCount = Cardinality(run[r].out)

C6_Witness ==
    \E r \in Runs :
        /\ run[r].outcome = "ok"
        /\ sweep[r].succeeded # {}
        /\ sweep[r].started # sweep[r].succeeded

\* C7: error isolation.  A failing repo.blocks.delete never makes the run
\* fail: a run ends in error only when the mark phase or the key iterator
\* failed.  When a drained run ends, the sweep has gone through all keys,
\* every key whose deletion succeeded is gone and reported as removed, and
\* every key whose deletion failed is reported by an entry whose error
\* message names its CID.
C7_ErrorIsolation ==
    /\ [](\A r \in Runs :
            run[r].outcome = "error" => run[r].markFailed \/ sweep[r].lastError)
    /\ [][\A r \in Runs :
            (Ends(r) /\ run'[r].outcome = "ok") =>
                /\ sweep'[r].blockKeys = {}
                /\ sweep'[r].inflight = {}
                /\ \A k \in sweep'[r].started :
                    IF k \in sweep'[r].succeeded
                    THEN k \notin blocks' /\ Removed(k) \in run'[r].out
                    ELSE /\ Failed(k) \in run'[r].out
                         /\ Failed(k).err.cid = CidV1(k)
          ]_vars

C7_Witness ==
    \E r \in Runs :
        /\ run[r].outcome = "ok"
        /\ Cardinality(sweep[r].succeeded) = 2
        /\ Cardinality(sweep[r].started) = 3
        /\ \E k \in sweep[r].started : Failed(k) \in run[r].out

\* C8: bounded concurrency.  The number of repo.blocks.delete calls started
\* and not yet settled never exceeds BLOCK_RM_CONCURRENCY, also counting the
\* results waiting to be pulled.
C8_BoundedConcurrency ==
    \A r \in Runs :
        Cardinality(sweep[r].inflight) + Len(sweep[r].resultQueue)
            <= BLOCK_RM_CONCURRENCY

C8_Witness ==
    \E r \in Runs :
        /\ Cardinality(sweep[r].inflight) = BLOCK_RM_CONCURRENCY
        /\ sweep[r].blockKeys # {}

C10_ReleaseBeforeOutcome ==
    \A r \in Runs :
        /\ run[r].outcome \in {"ok", "error"} =>
                run[r].releases = 1 /\ r \notin holders
        /\ run[r].pc \in {"pull", "yielded"} =>
                run[r].releases = 0 /\ r \in holders

C10_Witness ==
    \E r \in Runs :
        /\ run[r].outcome = "error"
        /\ sweep[r].lastError
        /\ run[r].out # {}

\* What the three sources produce while the run r holds the lock: the pinned
\* CIDs, the pinner's internal blocks, and the MFS root with all it links to.
PinOutputs == pins \cup internals
MfsOutputs ==
    IF mfsRoot = NoRoot THEN {}
    ELSE {CidV0(mfsRoot)} \cup {CidV0(m) : m \in Refs(mfsRoot)}

\* C11: no MFS root is an empty contribution.  When repo.root.get fails with
\* NOT_FOUND, mfsSource ends without yielding and without calling refs, this
\* is not a failure of the mark phase (the run fails only when a collaborator
\* really threw), and the marked set the sweep works with is that of the pin
\* and pin-internal sources alone.
C11_NoMfsRootIsEmpty ==
    mfsRoot = NoRoot =>
        \A r \in Runs :
            /\ run[r].mfsSource.st \in {"idle", "get", "done", "dropped"}
            /\ run[r].mfsSource.left = {}
            /\ run[r].pc \in {"pull", "yielded"} =>
                    run[r].markedSet = {Encode(c) : c \in PinOutputs}
            /\ run[r].markFailed => faults > Cardinality(malformed)
            /\ run[r].outcome = "error" => faults > Cardinality(malformed)

C11_Witness ==
    /\ mfsRoot = NoRoot
    /\ \E r \in Runs :
        /\ run[r].outcome = "ok"
        /\ run[r].mfsSource.st = "done"
        /\ run[r].markedSet # {}
        /\ sweep[r].succeeded # {}

\* C12: a failure of the key enumeration is fatal.  Once the key iterator has
\* thrown, no further key is read and no delete is started; every entry the
\* run yields belongs to a key that was read, none stands for the failure;
\* and a run that is not closed by its consumer ends with the error, never
\* normally, having called release() and given up the lock.
C12_KeyEnumerationFailureIsFatal ==
    /\ [](\A r \in Runs :
            /\ sweep[r].lastError /\ run[r].pc = "done" /\ run[r].outcome # "closed" =>
                    /\ run[r].outcome = "error"
                    /\ run[r].releases = 1
                    /\ r \notin holders
            /\ \A e \in run[r].out :
                    \/ \E k \in sweep[r].started : e \in {Removed(k), Failed(k)}
                    \/ \E k \in malformed : e = OuterResult(CidV1(k))
            /\ run[r].outCount <= sweep[r].blocksCount)
    /\ [][\A r \in Runs :
            sweep[r].lastError =>
                /\ sweep'[r].blockKeys = sweep[r].blockKeys
                /\ sweep'[r].started = sweep[r].started
                /\ sweep'[r].blocksCount = sweep[r].blocksCount
          ]_vars

C12_Witness ==
    \E r \in Runs :
        /\ run[r].outcome = "error"
        /\ sweep[r].lastError
        /\ sweep[r].succeeded # {}
        /\ sweep[r].blockKeys # {}
        /\ r \notin holders

\* C13: deduplicated merge.  In whatever order parallelMerge hands over the
\* values of the three sources, the marked set that createMarkedSet returns is
\* exactly the set of the encoded identifiers of all the sources' outputs; a
\* block named by several sources, or under several CIDs, is in it once and
\* counts once in its size.  While the merge is going on the set holds
\* nothing else.
C13_DeduplicatedMerge ==
    \A r \in Runs :
        /\ run[r].pc \in {"pull", "yielded"} =>
            /\ run[r].markedSet = {Encode(c) : c \in PinOutputs \cup MfsOutputs}
            /\ Cardinality(run[r].markedSet)
                    = Cardinality({KeyOf(c) : c \in PinOutputs \cup MfsOutputs})
        /\ run[r].pc = "mark" =>
            run[r].markedSet \subseteq {Encode(c) : c \in PinOutputs \cup MfsOutputs}

C13_Witness ==
    \E r \in Runs :
        /\ run[r].pc = "pull"
        /\ \E c \in pins, d \in internals \cap MfsOutputs :
                c # d /\ KeyOf(c) = KeyOf(d)
        /\ Cardinality(run[r].markedSet) = 2

\* C14: join before sweep.  The three sources advance in any interleaving,
\* and a run enumerates no key and starts no delete before each of its three
\* sources has ended: while one of them is still producing, and after one of
\* them failed, deleteUnmarkedBlocks has not been called.
C14_JoinBeforeSweep ==
    \A r \in Runs :
        /\ (sweep[r].active \/ sweep[r].blocksCount > 0 \/ sweep[r].started # {}) =>
                SourcesJoined(run[r])
        /\ run[r].pc = "mark" => sweep[r] = InitSweep
        /\ run[r].pc \in {"pull", "yielded"} => SourcesJoined(run[r])

C14_Witness ==
    \E r \in Runs :
        /\ sweep[r].started # {}
        /\ \A s \in Sources : run[r][s].st = "done"
        /\ mfsRoot # NoRoot
        /\ pins # {}
        /\ Cardinality(run[r].markedSet) = NumBlocks - 1

\* C15: retained blocks are filtered silently.  For a key whose encoded
\* identifier is in the marked set, repo.blocks.delete is never called and no
\* entry names it; no null reaches the consumer, and the run yields no more
\* entries than it has keys that were not retained.  (A key that cannot be
\* encoded has no encoded identifier and is not retained.)
C15_RetainedFilteredSilently ==
    \A r \in Runs :
        /\ \A k \in MH \ malformed :
                Encode(CidV1(k)) \in run[r].markedSet =>
                    /\ k \notin sweep[r].started
                    /\ k \notin sweep[r].inflight
                    /\ \A e \in run[r].out :
                            e.cid # CidV1(k) /\ e.err.cid # CidV1(k)
        /\ \A e \in run[r].out : ~e.isNull
        /\ run[r].outCount
                <= Cardinality(sweep[r].started) + Cardinality(malformed)

C15_Witness ==
    \E r \in Runs :
        /\ run[r].outcome = "ok"
        /\ malformed = {}
        /\ sweep[r].blocksCount = NumBlocks
        /\ \E k \in blocks : Encode(CidV1(k)) \in run[r].markedSet
        /\ run[r].outCount = Cardinality(sweep[r].started)
        /\ run[r].outCount < sweep[r].blocksCount

\* C16: termination.  With sources and a key enumeration that are finite,
\* deletes that settle, a lock that is granted when free and a consumer that
\* keeps pulling, every run that was called reaches the end of its stream and
\* has then released the lock; it ends normally unless a mark source or the
\* key iterator failed, however many deletions fail.
C16_Termination ==
    \A r \in Runs :
        (run[r].pc \in {"idle", "lockwait", "mark", "pull", "yielded"})
            ~> /\ run[r].pc = "done"
               /\ run[r].releases = 1
               /\ r \notin holders
               /\ run[r].outcome \in {"ok", "error"}
               /\ run[r].outcome = "error" =>
                        run[r].markFailed \/ sweep[r].lastError

C16_Witness ==
    \A r \in Runs :
        /\ run[r].pc = "done"
        /\ run[r].outcome = "ok"
        /\ r \notin holders
        /\ sweep[r].blocksCount > 0
        /\ \E q \in Runs : sweep[q].started # {} /\ sweep[q].succeeded = {}

\* C17: attempted versus removed counters.  blocksCount counts every call of
\* removeBlock, so each delete attempt is counted whether it fails or
\* succeeds; removedBlocksCount grows only in a step in which a delete
\* succeeds, equals the number of successful deletions, and never exceeds
\* the number of attempts nor blocksCount.
C17_AttemptedVersusRemoved ==
    /\ [](\A r \in Runs :
            /\ sweep[r].removedBlocksCount = Cardinality(sweep[r].succeeded)
            /\ sweep[r].succeeded \subseteq sweep[r].started
            /\ Cardinality(sweep[r].started) <= sweep[r].blocksCount
            /\ sweep[r].removedBlocksCount <= sweep[r].blocksCount)
    /\ [][\A r \in Runs :
            /\ sweep'[r].started # sweep[r].started =>
                    sweep'[r].blocksCount = sweep[r].blocksCount + 1
            /\ sweep'[r].removedBlocksCount # sweep[r].removedBlocksCount =>
                    /\ sweep'[r].removedBlocksCount = sweep[r].removedBlocksCount + 1
                    /\ blocks' # blocks
                    /\ sweep'[r].blocksCount = sweep[r].blocksCount
          ]_vars

C17_Witness ==
    \E r \in Runs :
        /\ run[r].outcome = "ok"
        /\ sweep[r].blocksCount = NumBlocks
        /\ Cardinality(sweep[r].started) = 2
        /\ sweep[r].removedBlocksCount = 1

\* C18: deletes happen only under the lock.  Whenever a repo.blocks.delete
\* of a run is outstanding, the run holds the write lock and has not called
\* release().
C18_DeletesOnlyUnderLock ==
    \A r \in Runs :
        sweep[r].inflight # {} => r \in holders /\ run[r].releases = 0

\* The keys among those enumerated that run r does not retain: the encoded
\* identifier is not in the marked set, or there is none.
NotRetained(r, keys) ==
    {k \in keys : k \in malformed \/ Encode(CidV1(k)) \notin run[r].markedSet}

\* C19: one entry per unmarked key.  When a run that was drained to
\* completion ends, its entries are exactly: for each enumerated key that is
\* not retained one entry, without error when its delete succeeded, with an
\* error naming it when its delete failed or its handling threw; no key has
\* two entries, and the number of entries yielded, in whatever order, is the
\* number of enumerated keys that are not retained.
C19_OneEntryPerUnmarkedKey ==
    [][\A r \in Runs :
        (Ends(r) /\ run'[r].outcome = "ok") =>
            LET keys == NotRetained(r, sweep'[r].enumerated)
                out  == run'[r].out
            IN  /\ out = {Removed(k) : k \in sweep'[r].succeeded}
                        \cup {Failed(k) : k \in (keys \ malformed) \ sweep'[r].succeeded}
                        \cup {Res(NoCid, OuterError(CidV1(k))) : k \in keys \cap malformed}
                /\ sweep'[r].succeeded \subseteq keys \ malformed
                /\ sweep'[r].blockKeys = {}
                /\ sweep'[r].blocksCount = Cardinality(sweep'[r].enumerated)
                /\ Cardinality(out) = Cardinality(keys)
                /\ run'[r].outCount = Cardinality(keys)
      ]_vars

C19_Witness ==
    \E r \in Runs :
        /\ run[r].outcome = "ok"
        /\ malformed # {}
        /\ run[r].markedSet # {}
        /\ sweep[r].blocksCount = NumBlocks
        /\ run[r].outCount = 2
        /\ \E k \in malformed : Res(NoCid, OuterError(CidV1(k))) \in run[r].out

====
